---- MODULE Spec2Model ----
(***************************************************************************)
(* Model of the in-memory core of the chatbot backend:                     *)
(*   ChatHistory / ChatSession   (src/models/chat_models.py)               *)
(*   ResponseCache               (src/models/response_models.py)           *)
(*   RateLimiter                 (src/utils/rate_limiting.py)              *)
(* Python dicts are modelled as sequences of entries in insertion order,   *)
(* objects as indices into a heap, datetime.now() as a non-decreasing      *)
(* integer clock.                                                          *)
(***************************************************************************)
EXTENDS Integers, Sequences, FiniteSets, TLC

\* ---------------------------------------------------------------- bounds
MaxSessionsBound == 2
MaxMessagesBound == 1
MaxTime == 1
MaxAppends == 2
MaxSizeBound == 2
MaxCount == 2
MaxSets == 4
MaxRequestsBound == 2
MaxWindowBound == 2
MaxClock == 3
MaxCalls == 4
MaxHours == 1
MaxAge == 1
MaxUsersBound == 1
MaxStamp == 1
MaxThreadCalls == 3
MaxRaceClock == 1

SessionIds == {"s1", "s2", "s3"}
MsgSessionIds == {"s1", "s2"}
UserIds == {"None"}

\* Python strings are sequences of characters; an Optional[str] is a record
NoneStr == [some |-> FALSE, str |-> <<>>]
Str(chars) == [some |-> TRUE, str |-> chars]
Contents == {<<"a">>, <<"a", ":", "b">>}
CacheUsers == {NoneStr, Str(<<"b">>)}
Responses == {"r1", "r2"}
RateKeys == {"k1", "k2"}
\* user ids are non-empty strings; a token may be the empty string
UserKeys == {"u1", "u2"}
Tokens == {"", "t1"}

VARIABLES
    now,                        \* datetime.now()
    sessions,                   \* ChatHistory.sessions: <<[key, val]>>, val an index of heap
    max_sessions,               \* ChatHistory.max_sessions
    max_messages_per_session,   \* ChatHistory.max_messages_per_session
    heap,                       \* every ChatSession instance ever constructed
    chat_last,                  \* the last call on ChatHistory / ChatSession and its result
    prev_goc,                   \* the last ChatHistory call, when it was get_or_create_session
    appended,                   \* ChatMessage ids handed out so far (messages are m1, m2, ...)
    cache,                      \* ResponseCache.cache: <<[key, val]>> in insertion order
    max_size,                   \* ResponseCache.max_size
    hit_count,                  \* ResponseCache.hit_count
    miss_count,                 \* ResponseCache.miss_count
    cache_last,                 \* the last ResponseCache call and its outcome
    inserted_at,                \* for each cached key, the number of the set call that entered it
    set_calls,                  \* the number of set calls so far
    limiter_users,              \* RateLimiter.users: key -> RateLimitInfo
    max_requests,               \* RateLimiter.max_requests
    window_minutes,             \* RateLimiter.window_minutes
    calls,                      \* every is_allowed call so far: <<[key, at, ret, fresh]>>
    rate_last,                  \* the last RateLimiter call, when it was a query, and its result
    um_users,                   \* UserManager.users: user_id -> User
    active_sessions,            \* UserManager.active_sessions: token -> user_id
    um_last,                    \* the last UserManager call and its outcome
    max_users,                  \* UserManager.max_users
    rt_x,                       \* the object a to_dict / from_dict round trip starts from
    rt_y,                       \* the object the round trip gave (NoValue before it ran)
    threads,                    \* per thread: the statement it is at and its local variables
    overlapped,                 \* a call was started while another thread was inside one
    rl_objs,                    \* the RateLimitInfo instances the threads constructed
    rl_reg                      \* the instance RateLimiter.users holds for the key (0: none)

chat_vars ==
    <<sessions, max_sessions, max_messages_per_session, heap, chat_last, prev_goc, appended>>

cache_vars == <<cache, max_size, hit_count, miss_count, cache_last, inserted_at, set_calls>>

rate_vars == <<limiter_users, max_requests, window_minutes, calls, rate_last>>

user_vars == <<um_users, active_sessions, um_last, max_users>>

rt_vars == <<rt_x, rt_y>>

thread_vars == <<threads, overlapped, rl_objs, rl_reg>>

vars == <<now, chat_vars, cache_vars, rate_vars, user_vars, rt_vars, thread_vars>>

\* ------------------------------------------------------- Python helpers
Min(a, b) == IF a < b THEN a ELSE b

Max(a, b) == IF a > b THEN a ELSE b

\* seq[start:] with Python's index normalisation (a negative start counts
\* from the end, and -0 is 0)
PySliceFrom(seq, start) ==
    LET n == Len(seq)
        lo == IF start < 0 THEN Max(n + start, 0) ELSE Min(start, n)
    IN SubSeq(seq, lo + 1, n)

\* k in d
DictHas(d, k) == \E i \in 1..Len(d) : d[i].key = k

\* d.get(k), 0 standing for None
DictGet(d, k) ==
    IF DictHas(d, k) THEN d[CHOOSE i \in 1..Len(d) : d[i].key = k].val ELSE 0

\* (mutation) d.setdefault(k, v): a key that is present keeps its value
DictSet_keep(d, k, v) ==
    IF DictHas(d, k) THEN d ELSE Append(d, [key |-> k, val |-> v])

\* d[k] = v : an existing key keeps its position, a new key goes last
DictSet(d, k, v) ==
    IF DictHas(d, k)
    THEN [i \in 1..Len(d) |-> IF d[i].key = k THEN [key |-> k, val |-> v] ELSE d[i]]
    ELSE Append(d, [key |-> k, val |-> v])

\* (mutation) d.clear() in place of del d[k]
DictDel_all(d, k) == <<>>

\* del d[k]
DictDel(d, k) ==
    LET keep == {i \in 1..Len(d) : d[i].key # k}
        pos(p) == CHOOSE i \in keep : Cardinality({j \in keep : j < i}) = p - 1
    IN [p \in 1..Cardinality(keep) |-> d[pos(p)]]

\* sorted(d.items(), key=lambda x: x[1].last_activity) : stable, ascending
SortedByActivity(d, h) ==
    LET n == Len(d)
        act(i) == h[d[i].val].last_activity
        rank(i) == Cardinality({j \in 1..n :
                        act(j) < act(i) \/ (act(j) = act(i) /\ j < i)}) + 1
    IN [p \in 1..n |-> d[CHOOSE i \in 1..n : rank(i) = p]]

\* -------------------------------------------------------- ResponseCache
\* the literal 'anonymous'
Anonymous == <<"a", "n", "o", "n", "y", "m", "o", "u", "s">>

\* ResponseCache._hash_content: f"{content}:{user_id or 'anonymous'}"; the MD5
\* digest of two strings is equal exactly when the strings are, so the
\* formatted string stands for its digest
HashContent(content, user_id) ==
    content \o <<":">> \o
        (IF user_id.some /\ user_id.str # <<>> THEN user_id.str ELSE Anonymous)

\* user_id arguments that are absent, empty, the literal 'anonymous', or hold
\* the ':' that _hash_content puts between content and user_id
IsolationUsers ==
    {NoneStr, Str(<<>>), Str(Anonymous), Str(<<"c">>), Str(<<"b", ":", "c">>)}

\* every key the calls of the model can produce
CacheKeys == {HashContent(c, u) : c \in Contents, u \in CacheUsers \cup IsolationUsers}

\* the keys of a dict
Keys(d) == {d[i].key : i \in 1..Len(d)}

\* self.cache[cache_key], "None" when the key is absent
CacheLookup(d, k) ==
    IF DictHas(d, k) THEN d[CHOOSE i \in 1..Len(d) : d[i].key = k].val ELSE "None"

\* (mutation) the capacity test off by one: len(self.cache) > self.max_size
CacheIsFull_gt(d, m) == Len(d) > m

\* len(self.cache) >= self.max_size
CacheIsFull(d, m) == Len(d) >= m

\* (mutation) eviction from the wrong end of the iteration order
OldestKey_last(d) == d[Len(d)].key

\* next(iter(self.cache))
OldestKey(d) == d[1].key

\* (mutation) setdefault instead of assignment: an existing key keeps its value
CacheStore_setdefault(d, k, r) == IF DictHas(d, k) THEN d ELSE DictSet(d, k, r)

\* self.cache[cache_key] = response
CacheStore(d, k, r) == DictSet(d, k, r)

NoKey == <<>>

\* the ResponseCache of a specification that makes no calls on it
CacheIdle ==
    /\ cache = <<>>
    /\ max_size = 0
    /\ hit_count = 0
    /\ miss_count = 0
    /\ cache_last = [op |-> "init", content |-> <<>>, user_id |-> NoneStr, val |-> "None",
                     raised |-> FALSE, evicted |-> NoKey, follows_set |-> FALSE]
    /\ inserted_at = [k \in CacheKeys |-> 0]
    /\ set_calls = 0

\* ---------------------------------------------------------- RateLimiter
\* None, for an Optional[datetime]
NoTime == -1

\* a key that is not in RateLimiter.users
Unseen ==
    [seen |-> FALSE, requests_made |-> 0, window_start |-> 0, last_request |-> NoTime,
     is_blocked |-> FALSE, block_until |-> NoTime]

\* RateLimitInfo(), constructed at time t
NewRateLimitInfo(t) ==
    [seen |-> TRUE, requests_made |-> 0, window_start |-> t, last_request |-> NoTime,
     is_blocked |-> FALSE, block_until |-> NoTime]

\* (mutation) the limit test off by one: requests_made > max_requests
LimitReached_gt(info, m) == info.requests_made > m

\* user_info.requests_made >= self.max_requests
LimitReached(info, m) == info.requests_made >= m

\* (mutation) the block still holds at block_until itself
BlockActive_le(info, t) == t <= info.block_until

\* now < user_info.block_until
BlockActive(info, t) == t < info.block_until

\* RateLimiter.is_allowed on the key's entry u at time t: the entry it leaves,
\* the value it returns, and whether the call began a window for the key
\* (by creating the entry or by resetting the counter)
IsAllowedResult(u, t, m, w) ==
    LET u1 == IF u.seen THEN u ELSE NewRateLimitInfo(t)
        stillBlocked == u1.is_blocked /\ u1.block_until # NoTime /\ BlockActive(u1, t)
        u2 == IF u1.is_blocked /\ u1.block_until # NoTime
              THEN [u1 EXCEPT !.is_blocked = FALSE, !.block_until = NoTime]
              ELSE u1
        reset == t - u2.window_start >= w
        u3 == IF reset
              THEN [u2 EXCEPT !.requests_made = 0, !.window_start = t]
              ELSE u2
    IN IF stillBlocked
       THEN [info |-> u1, ret |-> FALSE, fresh |-> ~u.seen]
       ELSE IF LimitReached(u3, m)
            THEN [info |-> [u3 EXCEPT !.is_blocked = TRUE, !.block_until = t + w],
                  ret |-> FALSE, fresh |-> (~u.seen \/ reset)]
            ELSE [info |-> [u3 EXCEPT !.requests_made = @ + 1, !.last_request = t],
                  ret |-> TRUE, fresh |-> (~u.seen \/ reset)]

\* (mutation) the requests made are not subtracted
GetRemainingRequests_full(key) == max_requests

\* RateLimiter.get_remaining_requests
GetRemainingRequests(key) ==
    IF ~limiter_users[key].seen THEN max_requests
    ELSE Max(0, max_requests - limiter_users[key].requests_made)

\* (mutation) a key that is not in users gets a window that starts now
GetResetTime_fresh(key) ==
    IF ~limiter_users[key].seen THEN now + window_minutes
    ELSE limiter_users[key].window_start + window_minutes

\* RateLimiter.get_reset_time (NoTime for None)
GetResetTime(key) ==
    IF ~limiter_users[key].seen THEN NoTime
    ELSE limiter_users[key].window_start + window_minutes

\* the last RateLimiter call was not a query
NoQuery == [op |-> "none", key |-> "None", ret |-> 0]

\* the RateLimiter of a specification that makes no calls on it
RateIdle ==
    /\ limiter_users = [k \in RateKeys |-> Unseen]
    /\ max_requests = 0
    /\ window_minutes = 0
    /\ calls = <<>>
    /\ rate_last = NoQuery

\* ---------------------------------------------------------- UserManager
\* a user_id that is not in UserManager.users
NoUser ==
    [exists |-> FALSE, is_active |-> FALSE, session_token |-> "None", last_login |-> NoTime]

\* User(user_id=..., username=..., email=..., role=...): the fields the manager
\* reads or writes (username, email, role, preferences and stats are carried
\* along untouched)
NewUser ==
    [exists |-> TRUE, is_active |-> TRUE, session_token |-> "None", last_login |-> NoTime]

\* User.login at time t
UserLogin(user, token, t) ==
    [user EXCEPT !.last_login = t, !.session_token = token, !.is_active = TRUE]

\* (mutation) logout keeps the token on the user
UserLogout_keep(user) == user

\* User.logout
UserLogout(user) == [user EXCEPT !.session_token = "None"]

\* Python's truth value of an Optional[str]
Truthy(str) == str # "None" /\ str # ""

\* UserManager.get_user: the user_id of the User found ("None" for None)
GetUser(users, user_id) ==
    IF user_id \in DOMAIN users /\ users[user_id].exists THEN user_id ELSE "None"

\* UserManager.get_user_by_session
GetUserBySession(index, users, token) ==
    LET user_id == index[token]
    IN IF Truthy(user_id) THEN GetUser(users, user_id) ELSE "None"

\* (mutation) is_active is not looked at
CanLogin_exists(user) == user.exists

\* user and user.is_active
CanLogin(user) == user.exists /\ user.is_active

\* (mutation) the index entry is left in place
Unregister_keep(index, token) == index

\* del self.active_sessions[session_token]
Unregister(index, token) == [index EXCEPT ![token] = "None"]

\* the names user_models.py binds at module level do not include timedelta
TimedeltaDefined == FALSE

\* the tokens cleanup_inactive_sessions collects in sessions_to_remove
SessionsToRemove(index, users, cutoff_time) ==
    {t \in Tokens :
        /\ index[t] # "None"
        /\ GetUser(users, index[t]) # "None"
        /\ users[index[t]].last_login # NoTime
        /\ users[index[t]].last_login < cutoff_time}

NoUmCall == [op |-> "init", user_id |-> "None", token |-> "None", ret |-> FALSE,
             raised |-> FALSE]

\* the UserManager of a specification that makes no calls on it
UserIdle ==
    /\ um_users = [u \in UserKeys |-> NoUser]
    /\ active_sessions = [t \in Tokens |-> "None"]
    /\ um_last = NoUmCall
    /\ max_users = 0

\* ------------------------------------------------ to_dict / from_dict
\* no object
NoValue == [class |-> "NoneType"]

\* no round trip is being made
RtIdle ==
    /\ rt_x = NoValue
    /\ rt_y = NoValue

\* ------------------------------------------------------------ threads
Threads == {1, 2}

\* a thread that is not inside a call
IdleThread == [pc |-> "idle"]

\* no threads are running
ThreadIdle ==
    /\ threads = [t \in Threads |-> IdleThread]
    /\ overlapped = FALSE
    /\ rl_objs = [o \in Threads |-> Unseen]
    /\ rl_reg = 0

\* ---------------------------------------------------------- ChatHistory
\* addresses of ChatSession instances: the registered ones, the ones the
\* caller still holds, and the one under construction
Pool == 1..(Cardinality(SessionIds) + 3)

\* an address holding no instance (appended_at: the time of the latest
\* add_message call on the instance, NoTime when there was none)
FreeCell ==
    [live |-> FALSE, session_id |-> "None", user_id |-> "None", messages |-> <<>>,
     last_activity |-> 0, appended_at |-> NoTime]

\* ChatSession(session_id=..., user_id=...)
NewSession(sid, uid) ==
    [live |-> TRUE, session_id |-> sid, user_id |-> uid, messages |-> <<>>,
     last_activity |-> now, appended_at |-> NoTime]

\* (mutation) add_message leaves last_activity as it was
SessionAddMessage_stale(session, message, t) ==
    [session EXCEPT !.messages = Append(@, message), !.appended_at = t]

\* ChatSession.add_message at time t
SessionAddMessage(session, message, t) ==
    [session EXCEPT !.messages = Append(@, message), !.last_activity = t,
                    !.appended_at = t]

\* the address a new instance gets
Alloc(h) == CHOOSE o \in Pool : ~h[o].live /\ \A p \in Pool : p < o => h[p].live

\* calls that hand a ChatSession to the caller
ObjOps == {"create_session", "get_or_create_session", "add_message"}

\* instances that are referenced: by the sessions dict or by the caller
Roots(d, cl, pg) ==
    {d[i].val : i \in 1..Len(d)}
        \cup (IF pg.ret # 0 THEN {pg.ret} ELSE {})
        \cup (IF cl.op \in ObjOps /\ cl.ret # 0 THEN {cl.ret} ELSE {})

\* an instance nothing references any more is freed
Collect(h, roots) == [o \in Pool |-> IF o \in roots THEN h[o] ELSE FreeCell]

\* (mutation) the slice taken from the wrong end: sorted_sessions[:self.max_sessions]
SessionsToKeep_oldest(sorted, m) == SubSeq(sorted, 1, Min(m, Len(sorted)))

\* sessions_to_keep = sorted_sessions[-self.max_sessions:]
SessionsToKeep(sorted, m) == PySliceFrom(sorted, 0 - m)

\* ChatHistory._cleanup_old_sessions
CleanupOldSessions(d, h, m) ==
    IF Len(d) > m THEN SessionsToKeep(SortedByActivity(d, h), m) ELSE d

\* (mutation) the lookup never finds the id
GetSession_absent(sid) == 0

\* ChatHistory.get_session
GetSession(sid) == DictGet(sessions, sid)

NoCall == [sid |-> "None", uid |-> "None", ret |-> 0]

\* the ChatHistory of a specification that makes no calls on it
ChatIdle ==
    /\ sessions = <<>>
    /\ max_sessions = 0
    /\ max_messages_per_session = 0
    /\ heap = [o \in Pool |-> FreeCell]
    /\ chat_last = [op |-> "init", ret |-> 0, repeat |-> FALSE]
    /\ prev_goc = NoCall
    /\ appended = 0

ChatInit ==
    /\ now = 0
    /\ sessions = <<>>
    /\ max_sessions \in 0..MaxSessionsBound
    /\ max_messages_per_session \in 0..MaxMessagesBound
    /\ heap = [o \in Pool |-> FreeCell]
    /\ chat_last = [op |-> "init", ret |-> 0, repeat |-> FALSE]
    /\ prev_goc = NoCall
    /\ appended = 0
    /\ CacheIdle
    /\ RateIdle
    /\ UserIdle
    /\ RtIdle
    /\ ThreadIdle

\* the id is stored and its session holds messages
Replaces(sid) == GetSession(sid) # 0 /\ heap[GetSession(sid)].messages # <<>>

\* ChatHistory.create_session (repeat: the call replaced a session that held
\* messages)
CreateSession(sid, uid) ==
    /\ LET obj == Alloc(heap)
           h == [heap EXCEPT ![obj] = NewSession(sid, uid)]
       IN /\ sessions' = CleanupOldSessions(DictSet(sessions, sid, obj), h, max_sessions)
          /\ chat_last' = [op |-> "create_session", ret |-> obj,
                           repeat |-> Replaces(sid)]
          /\ prev_goc' = NoCall
          /\ heap' = Collect(h, Roots(sessions', chat_last', prev_goc'))
    /\ UNCHANGED <<rt_vars, thread_vars, now, max_sessions, max_messages_per_session, appended, cache_vars, rate_vars, user_vars>>

\* ChatHistory.get_or_create_session
GetOrCreateSession(sid, uid) ==
    /\ IF GetSession(sid) # 0
       THEN /\ sessions' = sessions
            /\ chat_last' = [op |-> "get_or_create_session", ret |-> GetSession(sid),
                             repeat |-> (prev_goc.sid = sid)]
            /\ prev_goc' = [sid |-> sid, uid |-> uid, ret |-> GetSession(sid)]
            /\ heap' = Collect(heap, Roots(sessions', chat_last', prev_goc'))
       ELSE LET obj == Alloc(heap)
                h == [heap EXCEPT ![obj] = NewSession(sid, uid)]
            IN /\ sessions' = CleanupOldSessions(DictSet(sessions, sid, obj), h, max_sessions)
               /\ chat_last' = [op |-> "get_or_create_session", ret |-> obj,
                                repeat |-> (prev_goc.sid = sid)]
               /\ prev_goc' = [sid |-> sid, uid |-> uid, ret |-> obj]
               /\ heap' = Collect(h, Roots(sessions', chat_last', prev_goc'))
    /\ UNCHANGED <<rt_vars, thread_vars, now, max_sessions, max_messages_per_session, appended, cache_vars, rate_vars, user_vars>>

\* ChatHistory.delete_session (ret: 1 for True, 0 for False)
DeleteSession(sid) ==
    /\ IF DictHas(sessions, sid)
       THEN /\ sessions' = DictDel(sessions, sid)
            /\ chat_last' = [op |-> "delete_session", ret |-> 1, repeat |-> FALSE]
       ELSE /\ sessions' = sessions
            /\ chat_last' = [op |-> "delete_session", ret |-> 0, repeat |-> FALSE]
    /\ prev_goc' = NoCall
    /\ heap' = Collect(heap, Roots(sessions', chat_last', prev_goc'))
    /\ UNCHANGED <<rt_vars, thread_vars, now, max_sessions, max_messages_per_session, appended, cache_vars, rate_vars, user_vars>>

\* ChatSession.add_message, on an instance the caller can reach
AddMessage(obj) ==
    /\ heap[obj].live
    /\ appended < MaxAppends
    /\ appended' = appended + 1
    /\ chat_last' = [op |-> "add_message", ret |-> obj,
                     repeat |-> FALSE]
    /\ heap' = Collect([heap EXCEPT ![obj] = SessionAddMessage(@, appended + 1, now)],
                       Roots(sessions, chat_last', prev_goc))
    /\ UNCHANGED <<rt_vars, thread_vars, now, sessions, max_sessions, max_messages_per_session, prev_goc, cache_vars, rate_vars, user_vars>>

\* session.messages[-self.max_messages_per_session:]
RecentMessages(msgs, m) == PySliceFrom(msgs, 0 - m)

\* ChatHistory.cleanup_messages
CleanupMessages(sid) ==
    /\ chat_last' = [op |-> "cleanup_messages", ret |-> 0, repeat |-> FALSE]
    /\ prev_goc' = NoCall
    /\ LET obj == GetSession(sid)
           h == IF obj # 0 /\ Len(heap[obj].messages) > max_messages_per_session
                THEN [heap EXCEPT ![obj].messages =
                            RecentMessages(@, max_messages_per_session)]
                ELSE heap
       IN heap' = Collect(h, Roots(sessions, chat_last', prev_goc'))
    /\ UNCHANGED <<rt_vars, thread_vars, now, sessions, max_sessions, max_messages_per_session, appended, cache_vars, rate_vars, user_vars>>

\* the clock advances between calls
Tick ==
    /\ now < MaxTime
    /\ now' = now + 1
    /\ UNCHANGED <<rt_vars, thread_vars, chat_vars, cache_vars, rate_vars, user_vars>>

\* calls on the ChatHistory store alone
ChatNext ==
    \/ \E sid \in SessionIds, uid \in UserIds : CreateSession(sid, uid)
    \/ \E sid \in SessionIds, uid \in UserIds : GetOrCreateSession(sid, uid)
    \/ \E sid \in SessionIds : DeleteSession(sid)
    \/ Tick

SpecChat == ChatInit /\ [][ChatNext]_vars

\* calls on the store and on the sessions it hands out
MsgNext ==
    \/ \E sid \in MsgSessionIds, uid \in UserIds : CreateSession(sid, uid)
    \/ \E sid \in MsgSessionIds, uid \in UserIds : GetOrCreateSession(sid, uid)
    \/ \E sid \in MsgSessionIds : DeleteSession(sid)
    \/ \E obj \in Pool : AddMessage(obj)
    \/ \E sid \in MsgSessionIds : CleanupMessages(sid)
    \/ Tick

SpecMsgs == ChatInit /\ [][MsgNext]_vars

\* user_id arguments: absent, or a user
OwnerIds == {"None", "u1"}

\* sessions looked up or created for either user_id, and messages added
OwnerNext ==
    \/ \E sid \in MsgSessionIds, uid \in OwnerIds : GetOrCreateSession(sid, uid)
    \/ \E obj \in Pool : AddMessage(obj)
    \/ Tick

\* a store whose cleanup_messages is not called
OwnerInit ==
    /\ ChatInit
    /\ max_messages_per_session = 0

SpecOwner == OwnerInit /\ [][OwnerNext]_vars

\* ------------------------------------------------ ResponseCache actions
CacheInit ==
    /\ now = 0
    /\ ChatIdle
    /\ RateIdle
    /\ UserIdle
    /\ RtIdle
    /\ ThreadIdle
    /\ cache = <<>>
    /\ max_size \in 0..MaxSizeBound
    /\ hit_count = 0
    /\ miss_count = 0
    /\ cache_last = [op |-> "init", content |-> <<>>, user_id |-> NoneStr, val |-> "None",
                     raised |-> FALSE, evicted |-> NoKey, follows_set |-> FALSE]
    /\ inserted_at = [k \in CacheKeys |-> 0]
    /\ set_calls = 0

\* ResponseCache.get
CacheGet(content, user_id) ==
    /\ LET cache_key == HashContent(content, user_id)
           follows == /\ cache_last.op = "set"
                      /\ ~cache_last.raised
                      /\ cache_last.content = content
                      /\ cache_last.user_id = user_id
       IN IF DictHas(cache, cache_key)
          THEN /\ hit_count + miss_count < MaxCount
               /\ hit_count' = hit_count + 1
               /\ miss_count' = miss_count
               /\ cache_last' = [op |-> "get", content |-> content, user_id |-> user_id,
                                 val |-> CacheLookup(cache, cache_key), raised |-> FALSE,
                                 evicted |-> NoKey, follows_set |-> follows]
          ELSE /\ hit_count + miss_count < MaxCount
               /\ miss_count' = miss_count + 1
               /\ hit_count' = hit_count
               /\ cache_last' = [op |-> "get", content |-> content, user_id |-> user_id,
                                 val |-> "None", raised |-> FALSE,
                                 evicted |-> NoKey, follows_set |-> follows]
    /\ UNCHANGED <<rt_vars, thread_vars, now, chat_vars, rate_vars, user_vars, cache, max_size, inserted_at, set_calls>>

\* ResponseCache.set; next(iter(self.cache)) on an empty dict raises
\* StopIteration and the call ends there
CacheSet(content, response, user_id) ==
    /\ set_calls < MaxSets
    /\ set_calls' = set_calls + 1
    /\ LET cache_key == HashContent(content, user_id)
       IN IF CacheIsFull(cache, max_size)
          THEN IF cache = <<>>
               THEN /\ cache' = cache
                    /\ inserted_at' = inserted_at
                    /\ cache_last' = [op |-> "set", content |-> content, user_id |-> user_id,
                                      val |-> response, raised |-> TRUE,
                                      evicted |-> NoKey, follows_set |-> FALSE]
               ELSE LET oldest_key == OldestKey(cache)
                        rest == DictDel(cache, oldest_key)
                    IN /\ cache' = CacheStore(rest, cache_key, response)
                       /\ inserted_at' =
                            [k \in CacheKeys |->
                                IF k = cache_key /\ ~DictHas(rest, k) THEN set_calls + 1
                                ELSE IF k = oldest_key THEN 0
                                ELSE inserted_at[k]]
                       /\ cache_last' = [op |-> "set", content |-> content,
                                         user_id |-> user_id, val |-> response,
                                         raised |-> FALSE, evicted |-> oldest_key,
                                         follows_set |-> FALSE]
          ELSE /\ cache' = CacheStore(cache, cache_key, response)
               /\ inserted_at' =
                    [k \in CacheKeys |->
                        IF k = cache_key /\ ~DictHas(cache, k) THEN set_calls + 1
                        ELSE inserted_at[k]]
               /\ cache_last' = [op |-> "set", content |-> content, user_id |-> user_id,
                                 val |-> response, raised |-> FALSE,
                                 evicted |-> NoKey, follows_set |-> FALSE]
    /\ UNCHANGED <<rt_vars, thread_vars, now, chat_vars, rate_vars, user_vars, max_size, hit_count, miss_count>>

\* ResponseCache.clear
CacheClear ==
    /\ cache' = <<>>
    /\ hit_count' = 0
    /\ miss_count' = 0
    /\ inserted_at' = [k \in CacheKeys |-> 0]
    /\ cache_last' = [op |-> "clear", content |-> <<>>, user_id |-> NoneStr, val |-> "None",
                      raised |-> FALSE, evicted |-> NoKey, follows_set |-> FALSE]
    /\ UNCHANGED <<rt_vars, thread_vars, now, chat_vars, rate_vars, user_vars, max_size, set_calls>>

CacheNext ==
    \/ \E c \in Contents, u \in CacheUsers : CacheGet(c, u)
    \/ \E c \in Contents, r \in Responses, u \in CacheUsers : CacheSet(c, r, u)
    \/ CacheClear

SpecCache == CacheInit /\ [][CacheNext]_vars

\* the same calls, with the user_id arguments of IsolationUsers
IsolationNext ==
    \/ \E c \in Contents, u \in IsolationUsers : CacheGet(c, u)
    \/ \E c \in Contents, r \in Responses, u \in IsolationUsers : CacheSet(c, r, u)
    \/ CacheClear

SpecIsolation == CacheInit /\ [][IsolationNext]_vars

\* -------------------------------------------------- RateLimiter actions
RateInit ==
    /\ now = 0
    /\ ChatIdle
    /\ CacheIdle
    /\ limiter_users = [k \in RateKeys |-> Unseen]
    /\ max_requests \in 0..MaxRequestsBound
    /\ window_minutes \in 0..MaxWindowBound
    /\ calls = <<>>
    /\ rate_last = NoQuery
    /\ UserIdle
    /\ RtIdle
    /\ ThreadIdle

\* RateLimiter.is_allowed
IsAllowed(key) ==
    /\ Len(calls) < MaxCalls
    /\ LET r == IsAllowedResult(limiter_users[key], now, max_requests, window_minutes)
       IN /\ limiter_users' = [limiter_users EXCEPT ![key] = r.info]
          /\ calls' = Append(calls, [key |-> key, at |-> now, ret |-> r.ret,
                                     fresh |-> r.fresh])
    /\ rate_last' = NoQuery
    /\ UNCHANGED <<rt_vars, thread_vars, now, chat_vars, cache_vars, user_vars, max_requests, window_minutes>>

\* RateLimiter.get_remaining_requests
GetRemainingRequestsCall(key) ==
    /\ rate_last' = [op |-> "get_remaining_requests", key |-> key,
                     ret |-> GetRemainingRequests(key)]
    /\ UNCHANGED <<rt_vars, thread_vars, now, chat_vars, cache_vars, user_vars, limiter_users, max_requests,
                   window_minutes, calls>>

\* RateLimiter.get_reset_time
GetResetTimeCall(key) ==
    /\ rate_last' = [op |-> "get_reset_time", key |-> key, ret |-> GetResetTime(key)]
    /\ UNCHANGED <<rt_vars, thread_vars, now, chat_vars, cache_vars, user_vars, limiter_users, max_requests,
                   window_minutes, calls>>

\* time passes between calls
RateTick ==
    /\ now < MaxClock
    /\ now' = now + 1
    /\ UNCHANGED <<rt_vars, thread_vars, chat_vars, cache_vars, rate_vars, user_vars>>

RateNext ==
    \/ \E key \in RateKeys : IsAllowed(key)
    \/ \E key \in RateKeys : GetRemainingRequestsCall(key)
    \/ \E key \in RateKeys : GetResetTimeCall(key)
    \/ RateTick

SpecRate == RateInit /\ [][RateNext]_vars

\* -------------------------------------------------- UserManager actions
UserInit ==
    /\ now = 0
    /\ ChatIdle
    /\ CacheIdle
    /\ RateIdle
    /\ um_users = [u \in UserKeys |-> NoUser]
    /\ active_sessions = [t \in Tokens |-> "None"]
    /\ um_last = NoUmCall
    /\ max_users \in 0..MaxUsersBound
    /\ RtIdle
    /\ ThreadIdle

\* UserManager.create_user
CreateUser(user_id) ==
    /\ um_users' = [um_users EXCEPT ![user_id] = NewUser]
    /\ um_last' = [op |-> "create_user", user_id |-> user_id, token |-> "None",
                   ret |-> TRUE, raised |-> FALSE]
    /\ UNCHANGED <<rt_vars, thread_vars, now, chat_vars, cache_vars, rate_vars, max_users, active_sessions>>

\* UserManager.authenticate_user
AuthenticateUser(user_id, token) ==
    /\ IF GetUser(um_users, user_id) # "None" /\ CanLogin(um_users[user_id])
       THEN /\ um_users' = [um_users EXCEPT ![user_id] = UserLogin(@, token, now)]
            /\ active_sessions' = [active_sessions EXCEPT ![token] = user_id]
            /\ um_last' = [op |-> "authenticate_user", user_id |-> user_id,
                           token |-> token, ret |-> TRUE, raised |-> FALSE]
       ELSE /\ um_last' = [op |-> "authenticate_user", user_id |-> user_id,
                           token |-> token, ret |-> FALSE, raised |-> FALSE]
            /\ UNCHANGED <<um_users, active_sessions>>
    /\ UNCHANGED <<rt_vars, thread_vars, now, chat_vars, cache_vars, rate_vars, max_users>>

\* UserManager.logout_user
LogoutUser(token) ==
    /\ LET user == GetUserBySession(active_sessions, um_users, token)
       IN IF user # "None"
          THEN /\ um_users' = [um_users EXCEPT ![user] = UserLogout(@)]
               /\ active_sessions' = Unregister(active_sessions, token)
               /\ um_last' = [op |-> "logout_user", user_id |-> "None", token |-> token,
                              ret |-> TRUE, raised |-> FALSE]
          ELSE /\ um_last' = [op |-> "logout_user", user_id |-> "None", token |-> token,
                              ret |-> FALSE, raised |-> FALSE]
               /\ UNCHANGED <<um_users, active_sessions>>
    /\ UNCHANGED <<rt_vars, thread_vars, now, chat_vars, cache_vars, rate_vars, max_users>>

\* UserManager.cleanup_inactive_sessions: the first statement evaluates
\* timedelta(...), a NameError when the module has no such name; otherwise
\* every collected token is logged out
CleanupInactiveSessions(max_age_hours) ==
    /\ IF ~TimedeltaDefined
       THEN /\ um_last' = [op |-> "cleanup_inactive_sessions", user_id |-> "None",
                           token |-> "None", ret |-> FALSE, raised |-> TRUE]
            /\ UNCHANGED <<um_users, active_sessions>>
       ELSE LET gone == SessionsToRemove(active_sessions, um_users, now - max_age_hours)
            IN /\ um_users' = [u \in UserKeys |->
                                 IF \E t \in gone : active_sessions[t] = u
                                 THEN UserLogout(um_users[u]) ELSE um_users[u]]
               /\ active_sessions' = [t \in Tokens |->
                                        IF t \in gone THEN "None" ELSE active_sessions[t]]
               /\ um_last' = [op |-> "cleanup_inactive_sessions", user_id |-> "None",
                              token |-> "None", ret |-> FALSE, raised |-> FALSE]
    /\ UNCHANGED <<rt_vars, thread_vars, now, chat_vars, cache_vars, rate_vars, max_users>>

\* the caller clears User.is_active on a user it holds
Deactivate(user_id) ==
    /\ um_users[user_id].exists
    /\ um_users[user_id].is_active
    /\ um_users' = [um_users EXCEPT ![user_id].is_active = FALSE]
    /\ um_last' = [op |-> "deactivate", user_id |-> user_id, token |-> "None",
                   ret |-> FALSE, raised |-> FALSE]
    /\ UNCHANGED <<rt_vars, thread_vars, now, chat_vars, cache_vars, rate_vars, max_users, active_sessions>>

\* time passes between calls (in hours)
UserTick ==
    /\ now < MaxHours
    /\ now' = now + 1
    /\ UNCHANGED <<rt_vars, thread_vars, chat_vars, cache_vars, rate_vars, user_vars>>

UserNext ==
    \/ \E user_id \in UserKeys : CreateUser(user_id)
    \/ \E user_id \in UserKeys, token \in Tokens : AuthenticateUser(user_id, token)
    \/ \E token \in Tokens : LogoutUser(token)
    \/ \E max_age_hours \in 0..MaxAge : CleanupInactiveSessions(max_age_hours)
    \/ \E user_id \in UserKeys : Deactivate(user_id)
    \/ UserTick

SpecUser == UserInit /\ [][UserNext]_vars

\* ------------------------------------------ to_dict / from_dict actions
\* Python values: None, a datetime, and the string isoformat() makes of one
PyNone == [type |-> "NoneType", at |-> 0]
Datetime(t) == [type |-> "datetime", at |-> t]
IsoString(t) == [type |-> "str", at |-> t]

\* datetime.isoformat
IsoFormat(dt) == IsoString(dt.at)

\* datetime.fromisoformat
FromIsoFormat(str) == Datetime(str.at)

\* x.isoformat() if x else None
IsoFormatOrNone(x) == IF x.type # "NoneType" THEN IsoFormat(x) ELSE PyNone

\* datetime.fromisoformat(x) if x else None
FromIsoFormatOrNone(x) == IF x.type # "NoneType" THEN FromIsoFormat(x) ELSE PyNone

\* a member of an Enum class, and the class called on a member's value
EnumMember(cls, value) == [enum |-> cls, value |-> value]

Stamps == 0..MaxStamp
OptionalDatetimes == {PyNone} \cup {Datetime(t) : t \in Stamps}

\* UserPreferences.to_dict (the boolean preferences are copied as they are)
PreferencesToDict(prefs) ==
    [theme |-> prefs.theme.value, language |-> prefs.language.value,
     notifications |-> prefs.notifications]

\* UserPreferences.from_dict
PreferencesFromDict(data) ==
    [class |-> "UserPreferences", theme |-> EnumMember("Theme", data.theme),
     language |-> EnumMember("Language", data.language),
     notifications |-> data.notifications]

\* UserStats.to_dict (the counters and lists are copied as they are)
StatsToDict(stats) ==
    [total_messages |-> stats.total_messages,
     last_activity |-> IsoFormatOrNone(stats.last_activity)]

\* UserStats(**data['stats'])
StatsFromDict(data) ==
    [class |-> "UserStats", total_messages |-> data.total_messages,
     last_activity |-> data.last_activity]

\* User.to_dict
UserToDict(user) ==
    [user_id |-> user.user_id, username |-> user.username, email |-> user.email,
     role |-> user.role.value,
     preferences |-> PreferencesToDict(user.preferences),
     stats |-> StatsToDict(user.stats),
     created_at |-> IsoFormat(user.created_at),
     last_login |-> IsoFormatOrNone(user.last_login),
     is_active |-> user.is_active, session_token |-> user.session_token,
     metadata |-> user.metadata]

\* User.from_dict
UserFromDict(data) ==
    [class |-> "User", user_id |-> data.user_id, username |-> data.username,
     email |-> data.email,
     role |-> EnumMember("UserRole", data.role),
     preferences |-> PreferencesFromDict(data.preferences),
     stats |-> StatsFromDict(data.stats),
     created_at |-> FromIsoFormat(data.created_at),
     last_login |-> FromIsoFormatOrNone(data.last_login),
     is_active |-> data.is_active, session_token |-> data.session_token,
     metadata |-> data.metadata]

\* ChatMessage.to_dict
MessageToDict(message) ==
    [id |-> message.id, role |-> message.role.value, content |-> message.content,
     timestamp |-> IsoFormat(message.timestamp), status |-> message.status.value,
     metadata |-> message.metadata]

\* (mutation) from_dict keeps the timestamp string
MessageFromDict_raw(data) ==
    [class |-> "ChatMessage", id |-> data.id,
     role |-> EnumMember("MessageRole", data.role), content |-> data.content,
     timestamp |-> data.timestamp,
     status |-> EnumMember("MessageStatus", data.status), metadata |-> data.metadata]

\* ChatMessage.from_dict
MessageFromDict(data) ==
    [class |-> "ChatMessage", id |-> data.id,
     role |-> EnumMember("MessageRole", data.role), content |-> data.content,
     timestamp |-> FromIsoFormat(data.timestamp),
     status |-> EnumMember("MessageStatus", data.status), metadata |-> data.metadata]

\* User values
UserValues ==
    {[class |-> "User", user_id |-> "u1", username |-> "n", email |-> email,
      role |-> EnumMember("UserRole", role),
      preferences |-> [class |-> "UserPreferences", theme |-> EnumMember("Theme", theme),
                       language |-> EnumMember("Language", "en"),
                       notifications |-> TRUE],
      stats |-> [class |-> "UserStats", total_messages |-> 0,
                 last_activity |-> last_activity],
      created_at |-> Datetime(0), last_login |-> last_login,
      is_active |-> is_active, session_token |-> session_token, metadata |-> <<>>] :
        email \in {"None", "e"}, role \in {"guest", "registered", "premium", "admin"},
        theme \in {"dark", "light"},
        last_activity \in OptionalDatetimes, last_login \in OptionalDatetimes,
        is_active \in BOOLEAN, session_token \in {"None", "t1"}}

\* ChatMessage values
MessageValues ==
    {[class |-> "ChatMessage", id |-> "m1", role |-> EnumMember("MessageRole", role),
      content |-> content, timestamp |-> Datetime(t),
      status |-> EnumMember("MessageStatus", status), metadata |-> metadata] :
        role \in {"user", "model", "system"}, content \in {"", "a"}, t \in Stamps,
        status \in {"pending", "sent", "delivered", "failed"},
        metadata \in {<<>>, <<[key |-> "k", val |-> "v"]>>}}

RtInit ==
    /\ now = 0
    /\ ChatIdle
    /\ CacheIdle
    /\ RateIdle
    /\ UserIdle
    /\ ThreadIdle
    /\ rt_x \in UserValues \cup MessageValues
    /\ rt_y = NoValue

\* User.from_dict(x.to_dict())
UserRoundTrip ==
    /\ rt_x.class = "User"
    /\ rt_y = NoValue
    /\ rt_y' = UserFromDict(UserToDict(rt_x))
    /\ UNCHANGED <<now, chat_vars, cache_vars, rate_vars, user_vars, thread_vars, rt_x>>

\* ChatMessage.from_dict(m.to_dict())
MessageRoundTrip ==
    /\ rt_x.class = "ChatMessage"
    /\ rt_y = NoValue
    /\ rt_y' = MessageFromDict(MessageToDict(rt_x))
    /\ UNCHANGED <<now, chat_vars, cache_vars, rate_vars, user_vars, thread_vars, rt_x>>

RtNext ==
    \/ UserRoundTrip
    \/ MessageRoundTrip

SpecRoundTrip == RtInit /\ [][RtNext]_vars

\* ------------------------------- RateLimiter.is_allowed, two threads
\* Each action is one statement of is_allowed, run by thread t for the key
\* RaceKey; pc names the line the thread is about to run. A finished call is
\* logged in calls as [key, at, ret], at being the call's own now.
RaceKey == "k1"

\* the thread is about to run the statement at the line
At(t, line) == threads[t].pc = line

\* the thread moves on to the line
Goto(t, line) == threads' = [threads EXCEPT ![t].pc = line]

\* the RateLimitInfo the thread's user_info refers to
Info(t) == rl_objs[threads[t].user_info]

\* what a statement of is_allowed never touches
RaceFrame ==
    UNCHANGED <<chat_vars, cache_vars, user_vars, rt_vars, limiter_users, rate_last,
                max_requests, window_minutes>>

RaceInit ==
    /\ now = 0
    /\ ChatIdle
    /\ CacheIdle
    /\ UserIdle
    /\ RtIdle
    /\ ThreadIdle
    /\ limiter_users = [k \in RateKeys |-> Unseen]
    /\ rate_last = NoQuery
    /\ calls = <<>>
    /\ max_requests \in 1..MaxRequestsBound
    /\ window_minutes \in 1..MaxWindowBound

\* a thread enters is_allowed(RaceKey)
CallIsAllowed(t) ==
    /\ At(t, "idle")
    /\ Len(calls) + Cardinality({u \in Threads : ~At(u, "idle")}) < MaxThreadCalls
    /\ threads' = [threads EXCEPT ![t] = [pc |-> "31", now |-> NoTime, user_info |-> 0,
                                          window_age |-> 0]]
    /\ overlapped' = (overlapped \/ \E u \in Threads : ~At(u, "idle"))
    /\ UNCHANGED <<now, rl_objs, rl_reg, calls>>
    /\ RaceFrame

\* now = datetime.now()
ReadNow(t) ==
    /\ At(t, "31")
    /\ threads' = [threads EXCEPT ![t].now = now, ![t].pc = "33"]
    /\ UNCHANGED <<now, overlapped, rl_objs, rl_reg, calls>>
    /\ RaceFrame

\* if user_id not in self.users:
TestAbsent(t) ==
    /\ At(t, "33")
    /\ Goto(t, IF rl_reg = 0 THEN "34" ELSE "36")
    /\ UNCHANGED <<now, overlapped, rl_objs, rl_reg, calls>>
    /\ RaceFrame

\* self.users[user_id] = RateLimitInfo()
StoreNewInfo(t) ==
    /\ At(t, "34")
    /\ LET obj == CHOOSE o \in Threads :
                      ~rl_objs[o].seen /\ \A q \in Threads : q < o => rl_objs[q].seen
       IN /\ rl_objs' = [rl_objs EXCEPT ![obj] = NewRateLimitInfo(now)]
          /\ rl_reg' = obj
    /\ Goto(t, "36")
    /\ UNCHANGED <<now, overlapped, calls>>
    /\ RaceFrame

\* user_info = self.users[user_id]
LoadInfo(t) ==
    /\ At(t, "36")
    /\ threads' = [threads EXCEPT ![t].user_info = rl_reg, ![t].pc = "39"]
    /\ UNCHANGED <<now, overlapped, rl_objs, rl_reg, calls>>
    /\ RaceFrame

\* if user_info.is_blocked and user_info.block_until:
TestBlocked(t) ==
    /\ At(t, "39")
    /\ Goto(t, IF Info(t).is_blocked /\ Info(t).block_until # NoTime THEN "40" ELSE "48")
    /\ UNCHANGED <<now, overlapped, rl_objs, rl_reg, calls>>
    /\ RaceFrame

\* if now < user_info.block_until:
TestBlockActive(t) ==
    /\ At(t, "40")
    /\ Goto(t, IF BlockActive(Info(t), threads[t].now) THEN "41" ELSE "44")
    /\ UNCHANGED <<now, overlapped, rl_objs, rl_reg, calls>>
    /\ RaceFrame

\* return False (lines 41 and 57) / return True (line 62)
Return(t) ==
    /\ At(t, "41") \/ At(t, "57") \/ At(t, "62")
    /\ calls' = Append(calls, [key |-> RaceKey, at |-> threads[t].now,
                               ret |-> At(t, "62")])
    /\ threads' = [threads EXCEPT ![t] = IdleThread]
    /\ UNCHANGED <<now, overlapped, rl_objs, rl_reg>>
    /\ RaceFrame

\* the object user_info refers to after the assignment at the thread's line:
\*   44  user_info.is_blocked = False
\*   45  user_info.block_until = None
\*   50  user_info.requests_made = 0
\*   51  user_info.window_start = now
\*   55  user_info.is_blocked = True
\*   56  user_info.block_until = now + timedelta(minutes=self.window_minutes)
\*   60  user_info.requests_made += 1
\*   61  user_info.last_request = now
Assigned(t) ==
    CASE At(t, "44") -> [Info(t) EXCEPT !.is_blocked = FALSE]
      [] At(t, "45") -> [Info(t) EXCEPT !.block_until = NoTime]
      [] At(t, "50") -> [Info(t) EXCEPT !.requests_made = 0]
      [] At(t, "51") -> [Info(t) EXCEPT !.window_start = threads[t].now]
      [] At(t, "55") -> [Info(t) EXCEPT !.is_blocked = TRUE]
      [] At(t, "56") -> [Info(t) EXCEPT !.block_until = threads[t].now + window_minutes]
      [] At(t, "60") -> [Info(t) EXCEPT !.requests_made = @ + 1]
      [] At(t, "61") -> [Info(t) EXCEPT !.last_request = threads[t].now]

\* one assignment to a field of user_info; the thread moves on to the next line
AssignField(t) ==
    /\ threads[t].pc \in {"44", "45", "50", "51", "55", "56", "60", "61"}
    /\ rl_objs' = [rl_objs EXCEPT ![threads[t].user_info] = Assigned(t)]
    /\ Goto(t, CASE At(t, "44") -> "45" [] At(t, "45") -> "48"
                 [] At(t, "50") -> "51" [] At(t, "51") -> "54"
                 [] At(t, "55") -> "56" [] At(t, "56") -> "57"
                 [] At(t, "60") -> "61" [] At(t, "61") -> "62")
    /\ UNCHANGED <<now, overlapped, rl_reg, calls>>
    /\ RaceFrame

\* window_age = now - user_info.window_start
ComputeWindowAge(t) ==
    /\ At(t, "48")
    /\ threads' = [threads EXCEPT ![t].window_age = threads[t].now - Info(t).window_start,
                                  ![t].pc = "49"]
    /\ UNCHANGED <<now, overlapped, rl_objs, rl_reg, calls>>
    /\ RaceFrame

\* if window_age >= timedelta(minutes=self.window_minutes):
TestWindowAge(t) ==
    /\ At(t, "49")
    /\ Goto(t, IF threads[t].window_age >= window_minutes THEN "50" ELSE "54")
    /\ UNCHANGED <<now, overlapped, rl_objs, rl_reg, calls>>
    /\ RaceFrame

\* if user_info.requests_made >= self.max_requests:
TestLimit(t) ==
    /\ At(t, "54")
    /\ Goto(t, IF LimitReached(Info(t), max_requests) THEN "55" ELSE "60")
    /\ UNCHANGED <<now, overlapped, rl_objs, rl_reg, calls>>
    /\ RaceFrame

\* time passes between two statements
RaceTick ==
    /\ now < MaxRaceClock
    /\ now' = now + 1
    /\ UNCHANGED <<thread_vars, calls>>
    /\ RaceFrame

RaceNext ==
    \/ \E t \in Threads : CallIsAllowed(t)
    \/ \E t \in Threads : ReadNow(t)
    \/ \E t \in Threads : TestAbsent(t)
    \/ \E t \in Threads : StoreNewInfo(t)
    \/ \E t \in Threads : LoadInfo(t)
    \/ \E t \in Threads : TestBlocked(t)
    \/ \E t \in Threads : TestBlockActive(t)
    \/ \E t \in Threads : AssignField(t)
    \/ \E t \in Threads : ComputeWindowAge(t)
    \/ \E t \in Threads : TestWindowAge(t)
    \/ \E t \in Threads : TestLimit(t)
    \/ \E t \in Threads : Return(t)
    \/ RaceTick

SpecRace == RaceInit /\ [][RaceNext]_vars

\* ----------------------- ChatHistory.get_or_create_session, two threads
\* Each action is one statement of get_or_create_session, create_session or
\* _cleanup_old_sessions, run by thread t for the id GocId. A thread makes one
\* call and then holds the session the call returned (pc "done").
GocId == "s1"

\* the thread is inside its call
InCall(t) == ~At(t, "idle") /\ ~At(t, "done")

\* (mutation) the test always succeeds
IsNone_always(obj) == TRUE

\* session is None
IsNone(obj) == obj = 0

\* what a statement of get_or_create_session never touches
GocFrame ==
    UNCHANGED <<cache_vars, rate_vars, user_vars, rt_vars, max_sessions,
                max_messages_per_session, chat_last, prev_goc, rl_objs, rl_reg>>

GocInit ==
    /\ now = 0
    /\ sessions = <<>>
    /\ max_sessions \in 0..MaxSessionsBound
    /\ max_messages_per_session = 0
    /\ heap = [o \in Pool |-> FreeCell]
    /\ chat_last = [op |-> "init", ret |-> 0, repeat |-> FALSE]
    /\ prev_goc = NoCall
    /\ appended = 0
    /\ CacheIdle
    /\ RateIdle
    /\ UserIdle
    /\ RtIdle
    /\ ThreadIdle

\* a thread enters get_or_create_session(GocId)
CallGetOrCreate(t) ==
    /\ At(t, "idle")
    /\ threads' = [threads EXCEPT ![t] = [pc |-> "157", session |-> 0, created |-> 0,
                                          sorted_sessions |-> <<>>,
                                          sessions_to_keep |-> <<>>]]
    /\ overlapped' = (overlapped \/ \E u \in Threads : InCall(u))
    /\ UNCHANGED <<now, sessions, heap, appended>>
    /\ GocFrame

\* session = self.get_session(session_id)
LookUp(t) ==
    /\ At(t, "157")
    /\ threads' = [threads EXCEPT ![t].session = GetSession(GocId), ![t].pc = "158"]
    /\ UNCHANGED <<now, sessions, heap, appended, overlapped>>
    /\ GocFrame

\* if session is None:
TestNone(t) ==
    /\ At(t, "158")
    /\ Goto(t, IF IsNone(threads[t].session) THEN "146" ELSE "160")
    /\ UNCHANGED <<now, sessions, heap, appended, overlapped>>
    /\ GocFrame

\* create_session: session = ChatSession(session_id=session_id, user_id=user_id)
Construct(t) ==
    /\ At(t, "146")
    /\ heap' = [heap EXCEPT ![Alloc(heap)] = NewSession(GocId, "None")]
    /\ threads' = [threads EXCEPT ![t].created = Alloc(heap), ![t].pc = "147"]
    /\ UNCHANGED <<now, sessions, appended, overlapped>>
    /\ GocFrame

\* create_session: self.sessions[session_id] = session
Register(t) ==
    /\ At(t, "147")
    /\ sessions' = DictSet(sessions, GocId, threads[t].created)
    /\ Goto(t, "175")
    /\ UNCHANGED <<now, heap, appended, overlapped>>
    /\ GocFrame

\* _cleanup_old_sessions: if len(self.sessions) > self.max_sessions:
TestTooMany(t) ==
    /\ At(t, "175")
    /\ Goto(t, IF Len(sessions) > max_sessions THEN "177" ELSE "149")
    /\ UNCHANGED <<now, sessions, heap, appended, overlapped>>
    /\ GocFrame

\* _cleanup_old_sessions: sorted_sessions = sorted(self.sessions.items(), ...)
SortSessions(t) ==
    /\ At(t, "177")
    /\ threads' = [threads EXCEPT ![t].sorted_sessions = SortedByActivity(sessions, heap),
                                  ![t].pc = "183"]
    /\ UNCHANGED <<now, sessions, heap, appended, overlapped>>
    /\ GocFrame

\* _cleanup_old_sessions: sessions_to_keep = sorted_sessions[-self.max_sessions:]
SliceSessions(t) ==
    /\ At(t, "183")
    /\ threads' = [threads EXCEPT
                       ![t].sessions_to_keep =
                           SessionsToKeep(threads[t].sorted_sessions, max_sessions),
                       ![t].pc = "184"]
    /\ UNCHANGED <<now, sessions, heap, appended, overlapped>>
    /\ GocFrame

\* _cleanup_old_sessions: self.sessions = dict(sessions_to_keep)
ReplaceSessions(t) ==
    /\ At(t, "184")
    /\ sessions' = threads[t].sessions_to_keep
    /\ Goto(t, "149")
    /\ UNCHANGED <<now, heap, appended, overlapped>>
    /\ GocFrame

\* create_session: return session, assigned to session in get_or_create_session
ReturnCreated(t) ==
    /\ At(t, "149")
    /\ threads' = [threads EXCEPT ![t].session = threads[t].created, ![t].pc = "160"]
    /\ UNCHANGED <<now, sessions, heap, appended, overlapped>>
    /\ GocFrame

\* return session
ReturnSession(t) ==
    /\ At(t, "160")
    /\ Goto(t, "done")
    /\ UNCHANGED <<now, sessions, heap, appended, overlapped>>
    /\ GocFrame

\* the thread appends a message to the session its call returned
AppendToHeld(t) ==
    /\ At(t, "done")
    /\ appended < MaxAppends
    /\ appended' = appended + 1
    /\ heap' = [heap EXCEPT ![threads[t].session] =
                                SessionAddMessage(@, appended + 1, now)]
    /\ UNCHANGED <<now, sessions, threads, overlapped>>
    /\ GocFrame

\* time passes between two statements
GocTick ==
    /\ now < MaxTime
    /\ now' = now + 1
    /\ UNCHANGED <<sessions, heap, appended, threads, overlapped>>
    /\ GocFrame

GocNext ==
    \/ \E t \in Threads : CallGetOrCreate(t)
    \/ \E t \in Threads : LookUp(t)
    \/ \E t \in Threads : TestNone(t)
    \/ \E t \in Threads : Construct(t)
    \/ \E t \in Threads : Register(t)
    \/ \E t \in Threads : TestTooMany(t)
    \/ \E t \in Threads : SortSessions(t)
    \/ \E t \in Threads : SliceSessions(t)
    \/ \E t \in Threads : ReplaceSessions(t)
    \/ \E t \in Threads : ReturnCreated(t)
    \/ \E t \in Threads : ReturnSession(t)
    \/ \E t \in Threads : AppendToHeld(t)
    \/ GocTick

SpecGoc == GocInit /\ [][GocNext]_vars

\* ------------------------------------------------- ChatHistory properties
\* the instances registered in a sessions dict
Stored(d) == {d[i].val : i \in 1..Len(d)}

\* C1: after every create_session, get_or_create_session and delete_session
\* call the store holds at most max_sessions sessions (max_sessions >= 0).
C1_SessionCountBounded == Len(sessions) <= max_sessions

\* C2: a create_session call that makes the store exceed max_sessions leaves
\* exactly max_sessions sessions, and no evicted session was active more
\* recently than a retained one.
C2_EvictsLeastRecent ==
    [][\A sid \in SessionIds, uid \in UserIds :
        LET obj == Alloc(heap)
            h == [heap EXCEPT ![obj] = NewSession(sid, uid)]
            inserted == DictSet(sessions, sid, obj)
        IN (CreateSession(sid, uid) /\ Len(inserted) > max_sessions) =>
               /\ Len(sessions') = max_sessions
               /\ \A kept \in Stored(sessions'), gone \in Stored(inserted) \ Stored(sessions') :
                      h[kept].last_activity >= h[gone].last_activity
      ]_vars

\* C3: every stored session holds at most max_messages_per_session messages.
C3_MessageCountBounded ==
    \A o \in Stored(sessions) : Len(heap[o].messages) <= max_messages_per_session

\* C4: cleanup_messages(session_id) on a session of N messages leaves the last
\* max_messages_per_session of them, in order, when N exceeds the bound, and
\* leaves the session unchanged otherwise.
C4_CleanupKeepsMostRecent ==
    [][\A sid \in MsgSessionIds :
        (CleanupMessages(sid) /\ GetSession(sid) # 0) =>
            LET obj == GetSession(sid)
                msgs == heap[obj].messages
                n == Len(msgs)
                m == max_messages_per_session
            IN heap'[obj].messages = IF n > m THEN SubSeq(msgs, n - m + 1, n) ELSE msgs
      ]_vars

\* C5: a get_or_create_session(id) call that directly follows another one with
\* the same id (only appends to sessions in between) returns the same
\* instance, creates nothing, and finds the session's messages as they were.
C5_GetOrCreateIdempotent ==
    [][(chat_last'.op = "get_or_create_session" /\ chat_last'.repeat) =>
            /\ chat_last'.ret = prev_goc.ret
            /\ sessions' = sessions
            /\ {o \in Pool : heap'[o].live} \subseteq {o \in Pool : heap[o].live}
            /\ heap'[chat_last'.ret] = heap[prev_goc.ret]
      ]_vars

\* a repeated get_or_create_session has returned a session that holds messages
C5_Witness ==
    /\ chat_last.op = "get_or_create_session"
    /\ chat_last.repeat
    /\ heap[chat_last.ret].messages # <<>>

\* ----------------------------------------------- ResponseCache properties
\* C6: after every set, get and clear call the cache holds at most max_size
\* entries (max_size >= 0).
C6_CacheSizeBounded == Len(cache) <= max_size

\* a set has evicted an entry and left the cache exactly full
C6_Witness ==
    /\ cache_last.op = "set"
    /\ cache_last.evicted # NoKey
    /\ Len(cache) = max_size

\* C7: a get(content, user_id) right after a completed set(content, response,
\* user_id) returns that response and counts one hit and no miss; a get whose
\* key is not cached returns None, counts one miss and no hit and leaves the
\* cache as it was.
C7_SetThenGet ==
    [][\A c \in Contents, u \in CacheUsers :
        CacheGet(c, u) =>
            /\ (/\ cache_last.op = "set"
                /\ ~cache_last.raised
                /\ cache_last.content = c
                /\ cache_last.user_id = u) =>
                   /\ cache_last'.val = cache_last.val
                   /\ hit_count' = hit_count + 1
                   /\ miss_count' = miss_count
            /\ ~DictHas(cache, HashContent(c, u)) =>
                   /\ cache_last'.val = "None"
                   /\ miss_count' = miss_count + 1
                   /\ hit_count' = hit_count
                   /\ cache' = cache
      ]_vars

\* a get right after a set of the same pair has returned the response and
\* counted a hit
C7_Witness ==
    /\ cache_last.op = "get"
    /\ cache_last.follows_set
    /\ cache_last.val # "None"
    /\ hit_count > 0

\* C8: a set removes an entry only when the new entry would push the count
\* above max_size, and then exactly one; a set for a key that is already
\* cached replaces its value and removes no other entry.
C8_EvictsOnlyOnOverflow ==
    [][\A c \in Contents, r \in Responses, u \in CacheUsers :
        LET k == HashContent(c, u)
            removed == Keys(cache) \ Keys(cache')
        IN (CacheSet(c, r, u) /\ ~cache_last'.raised) =>
            /\ removed # {} =>
                   /\ ~DictHas(cache, k)
                   /\ Len(cache) + 1 > max_size
                   /\ Cardinality(removed) = 1
            /\ DictHas(cache, k) =>
                   /\ Keys(cache') = Keys(cache)
                   /\ CacheLookup(cache', k) = r
                   /\ \A k2 \in Keys(cache) \ {k} :
                          CacheLookup(cache', k2) = CacheLookup(cache, k2)
      ]_vars

\* C9: the entry a set evicts is the one that entered the cache earliest among
\* the entries cached, and a get leaves the next entry to be evicted the same.
C9_EvictionIsFifo ==
    [][/\ (cache_last'.op = "set" /\ cache_last'.evicted # NoKey /\ set_calls' # set_calls) =>
              \A k \in Keys(cache) : inserted_at[cache_last'.evicted] <= inserted_at[k]
       /\ (cache_last'.op = "get" /\ cache # <<>>) =>
              /\ cache' # <<>>
              /\ OldestKey(cache') = OldestKey(cache)
      ]_vars

\* a set has evicted one of two cached entries and a third key has entered
C9_Witness ==
    /\ cache_last.op = "set"
    /\ cache_last.evicted # NoKey
    /\ Len(cache) = 2
    /\ ~DictHas(cache, cache_last.evicted)

\* ------------------------------------------------- RateLimiter properties
\* the is_allowed calls made for a key, in order
CallsOf(key) == SelectSeq(calls, LAMBDA c : c.key = key)

\* every call for the key was made less than window_minutes after the first
InOneWindow(key) ==
    LET cs == CallsOf(key)
    IN \A i \in 1..Len(cs) : cs[i].at - cs[1].at < window_minutes

\* C10: with max_requests = n >= 1, the first n+1 is_allowed calls for a key,
\* all made within one window, return true n times and then false, and the
\* denied call leaves the key blocked until its own time plus window_minutes.
C10_LimitThenBlock ==
    \A key \in RateKeys :
        LET cs == CallsOf(key)
            n == max_requests
        IN (n >= 1 /\ Len(cs) <= n + 1 /\ InOneWindow(key)) =>
               /\ \A i \in 1..Len(cs) : cs[i].ret = (i <= n)
               /\ Len(cs) = n + 1 =>
                      /\ limiter_users[key].is_blocked
                      /\ limiter_users[key].block_until = cs[n + 1].at + window_minutes

\* a key has been denied on its (max_requests+1)-th call inside one window
C10_Witness ==
    \E key \in RateKeys :
        /\ max_requests >= 1
        /\ Len(CallsOf(key)) = max_requests + 1
        /\ InOneWindow(key)
        /\ ~CallsOf(key)[max_requests + 1].ret

\* the value returned by the is_allowed call a step has just made
LastRet == calls'[Len(calls')].ret

\* C11: while a key is blocked until b, every is_allowed call for it before b
\* returns false and leaves its RateLimitInfo as it was; the first call at a
\* time >= b clears the block, restarts the window at the call's time and,
\* with max_requests >= 1, returns true with requests_made = 1.
C11_BlockHoldsThenClears ==
    [][\A key \in RateKeys :
          LET u == limiter_users[key]
          IN (IsAllowed(key) /\ u.seen /\ u.is_blocked /\ u.block_until # NoTime) =>
                 /\ now < u.block_until =>
                        /\ ~LastRet
                        /\ limiter_users'[key] = u
                 /\ (now >= u.block_until /\ max_requests >= 1) =>
                        /\ LastRet
                        /\ ~limiter_users'[key].is_blocked
                        /\ limiter_users'[key].block_until = NoTime
                        /\ limiter_users'[key].window_start = now
                        /\ limiter_users'[key].requests_made = 1]_vars

\* a key was denied, denied again while blocked, and allowed once the block
\* had run out
C11_Witness ==
    \E key \in RateKeys :
        LET cs == CallsOf(key)
            n == Len(cs)
        IN /\ n >= 3
           /\ ~cs[n - 2].ret
           /\ ~cs[n - 1].ret
           /\ cs[n].ret
           /\ limiter_users[key].requests_made = 1

\* the call that began the window the j-th call of cs fell in
WindowOf(cs, j) ==
    CHOOSE i \in 1..j : cs[i].fresh /\ \A k \in (i + 1)..j : ~cs[k].fresh

\* the calls of cs in the window begun by call i that returned true
AllowedInWindow(cs, i) == {j \in 1..Len(cs) : cs[j].ret /\ WindowOf(cs, j) = i}

\* C12 (as stated): in every interval of length window_minutes, at most
\* max_requests is_allowed calls for a key return true.
C12_SlidingWindow ==
    \A key \in RateKeys, s \in 0..MaxClock :
        Cardinality({i \in 1..Len(calls) :
                        /\ calls[i].key = key
                        /\ calls[i].ret
                        /\ s <= calls[i].at
                        /\ calls[i].at < s + window_minutes}) <= max_requests

\* C12 (amended): at most max_requests of the is_allowed calls a key makes in
\* one window, from the call that starts or resets the window to the next
\* reset, return true.
C12_FixedWindow ==
    \A key \in RateKeys :
        \A i \in 1..Len(CallsOf(key)) :
            Cardinality(AllowedInWindow(CallsOf(key), i)) <= max_requests

\* a key used up its first window and was allowed again in a later one
C12_Witness ==
    \E key \in RateKeys :
        LET cs == CallsOf(key)
        IN /\ max_requests >= 1
           /\ Len(cs) > max_requests
           /\ Cardinality(AllowedInWindow(cs, 1)) = max_requests
           /\ \E j \in 2..Len(cs) : cs[j].fresh /\ cs[j].ret

\* the is_allowed calls that returned true in the key's current window
AllowedInCurrentWindow(key) ==
    LET cs == CallsOf(key)
    IN IF cs = <<>> THEN 0
       ELSE Cardinality(AllowedInWindow(cs, WindowOf(cs, Len(cs))))

\* C13: get_remaining_requests(key) returns max(0, max_requests -
\* requests_made), which is max_requests - k after k allowed calls in the
\* key's current window, is never negative, and changes no rate-limit state.
C13_RemainingRequests ==
    [][\A key \in RateKeys :
          GetRemainingRequestsCall(key) =>
              /\ rate_last'.ret = Max(0, max_requests - limiter_users[key].requests_made)
              /\ rate_last'.ret = max_requests - AllowedInCurrentWindow(key)
              /\ rate_last'.ret >= 0
              /\ limiter_users' = limiter_users
              /\ max_requests' = max_requests
              /\ window_minutes' = window_minutes]_vars

\* get_remaining_requests answered for a key that has used part of its window
C13_Witness ==
    /\ rate_last.op = "get_remaining_requests"
    /\ AllowedInCurrentWindow(rate_last.key) >= 1
    /\ rate_last.ret = max_requests - AllowedInCurrentWindow(rate_last.key)

\* C14 (as stated): for a key that was never seen, get_remaining_requests
\* returns max_requests, get_reset_time returns the start of a fresh window
\* plus window_minutes, and is_allowed returns true when max_requests >= 1.
C14_UnseenKeyFreshWindow ==
    [][\A key \in RateKeys :
          ~limiter_users[key].seen =>
              /\ GetRemainingRequestsCall(key) => rate_last'.ret = max_requests
              /\ GetResetTimeCall(key) => rate_last'.ret = now + window_minutes
              /\ (IsAllowed(key) /\ max_requests >= 1) => LastRet]_vars

\* C14 (amended): for a key that was never seen, get_remaining_requests
\* returns max_requests, get_reset_time returns None, and is_allowed returns
\* true when max_requests >= 1.
C14_UnseenKey ==
    [][\A key \in RateKeys :
          ~limiter_users[key].seen =>
              /\ GetRemainingRequestsCall(key) => rate_last'.ret = max_requests
              /\ GetResetTimeCall(key) => rate_last'.ret = NoTime
              /\ (IsAllowed(key) /\ max_requests >= 1) => LastRet]_vars

\* get_reset_time answered None for a key that is not in users
C14_Witness ==
    /\ rate_last.op = "get_reset_time"
    /\ ~limiter_users[rate_last.key].seen
    /\ rate_last.ret = NoTime

C16_IndexMatchesUsers ==
    \A t \in Tokens :
        active_sessions[t] # "None" =>
            /\ um_users[active_sessions[t]].exists
            /\ um_users[active_sessions[t]].session_token = t

\* C17: authenticate_user(user_id, token) returns true exactly when the user
\* exists and is active, and then last_login is the current time, the user
\* holds the token and the index maps the token to user_id; when it returns
\* false the users and the index are as they were.
C17_Authenticate ==
    [][\A u \in UserKeys, t \in Tokens :
          AuthenticateUser(u, t) =>
              /\ um_last'.ret = (um_users[u].exists /\ um_users[u].is_active)
              /\ um_last'.ret =>
                     /\ um_users'[u].last_login = now
                     /\ um_users'[u].session_token = t
                     /\ active_sessions'[t] = u
              /\ ~um_last'.ret =>
                     /\ um_users' = um_users
                     /\ active_sessions' = active_sessions]_vars

\* authenticate_user has refused a user that exists but is not active
C17_Witness ==
    /\ um_last.op = "authenticate_user"
    /\ ~um_last.ret
    /\ um_users[um_last.user_id].exists
    /\ ~um_users[um_last.user_id].is_active

C19_CleanupRemovesStale ==
    [][\A max_age_hours \in 0..MaxAge :
          CleanupInactiveSessions(max_age_hours) =>
              /\ ~um_last'.raised
              /\ \A t \in Tokens :
                     active_sessions'[t] # "None" =>
                         ~(/\ um_users'[active_sessions'[t]].last_login # NoTime
                           /\ um_users'[active_sessions'[t]].last_login < now - max_age_hours)
              /\ \A t \in Tokens :
                     (/\ active_sessions[t] # "None"
                      /\ um_users[active_sessions[t]].last_login >= now - max_age_hours) =>
                         /\ active_sessions'[t] = active_sessions[t]
                         /\ GetUserBySession(active_sessions', um_users', t)
                                = GetUserBySession(active_sessions, um_users, t)]_vars

\* C20: no operation of ChatHistory, ResponseCache, RateLimiter or UserManager
\* ends in an exception, whatever its arguments and configured bounds.
C20_NeverRaises == ~cache_last.raised /\ ~um_last.raised

\* ------------------------------------------- ChatHistory properties (2)
\* the ids stored in a sessions dict
StoredIds(d) == {d[i].key : i \in 1..Len(d)}

\* the messages of a sequence
Range(seq) == {seq[i] : i \in 1..Len(seq)}

\* C21: delete_session(id) on a stored id returns true and removes exactly
\* that session, every other session staying registered and untouched; on an
\* absent id it returns false and leaves the store unchanged (so a second
\* delete of the same id returns false).
C21_DeleteSession ==
    [][\A sid \in SessionIds :
          DeleteSession(sid) =>
              IF DictHas(sessions, sid)
              THEN /\ chat_last'.ret = 1
                   /\ ~DictHas(sessions', sid)
                   /\ StoredIds(sessions') = StoredIds(sessions) \ {sid}
                   /\ \A k \in StoredIds(sessions') :
                          /\ DictGet(sessions', k) = DictGet(sessions, k)
                          /\ heap'[DictGet(sessions', k)] = heap[DictGet(sessions, k)]
              ELSE /\ chat_last'.ret = 0
                   /\ sessions' = sessions
                   /\ \A o \in Stored(sessions) : heap'[o] = heap[o]]_vars

\* a delete has removed one session and left another one stored
C21_Witness ==
    /\ chat_last.op = "delete_session"
    /\ chat_last.ret = 1
    /\ Len(sessions) >= 1

\* C22: create_session(id) for a stored id overwrites: get_session(id) then
\* returns a new instance without messages, no message of the previous
\* session can be reached through the store, the session count is unchanged
\* and every other id keeps its session.
C22_CreateOverwrites ==
    [][\A sid \in MsgSessionIds, uid \in UserIds :
          (/\ DictHas(sessions, sid)
           /\ chat_last'.op = "create_session"
           /\ CreateSession(sid, uid)) =>
              LET old == DictGet(sessions, sid)
                  new == DictGet(sessions', sid)
              IN /\ new # 0
                 /\ new # old
                 /\ new = chat_last'.ret
                 /\ heap'[new].messages = <<>>
                 /\ \A o \in Stored(sessions') :
                        Range(heap'[o].messages) \cap Range(heap[old].messages) = {}
                 /\ Len(sessions') = Len(sessions)
                 /\ StoredIds(sessions') = StoredIds(sessions)
                 /\ \A k \in StoredIds(sessions) \ {sid} :
                        DictGet(sessions', k) = DictGet(sessions, k)]_vars

\* create_session has replaced a session that held messages, next to another
\* stored session
C22_Witness ==
    /\ chat_last.op = "create_session"
    /\ chat_last.repeat
    /\ Len(sessions) >= 2
    /\ heap[chat_last.ret].messages = <<>>

\* C23: add_message puts the message at the end of the session's sequence
\* and keeps the earlier ones in place, and sets last_activity to the current
\* time; a session's last_activity never decreases and is never older than
\* the time of its latest append.
C23_AddMessage ==
    [][/\ \A obj \in Pool :
             AddMessage(obj) =>
                 /\ heap'[obj].messages = Append(heap[obj].messages, appended')
                 /\ heap'[obj].last_activity = now
       /\ \A o \in Pool :
             (heap[o].live /\ heap'[o].live) =>
                 heap'[o].last_activity >= heap[o].last_activity
       /\ \A o \in Pool :
             (heap'[o].live /\ heap'[o].appended_at # NoTime) =>
                 heap'[o].last_activity >= heap'[o].appended_at]_vars

\* a second message has been appended to a session at a later time than the
\* first
C23_Witness ==
    /\ chat_last.op = "add_message"
    /\ Len(heap[chat_last.ret].messages) >= 2
    /\ heap[chat_last.ret].appended_at >= 1
    /\ heap[chat_last.ret].last_activity = heap[chat_last.ret].appended_at

\* ------------------------------------------- RateLimiter properties (2)
\* an is_allowed call for the key has returned false
Denied(key) == \E i \in 1..Len(calls) : calls[i].key = key /\ ~calls[i].ret

\* C26: for a key that has been denied, an is_allowed call made at or after
\* the time get_reset_time returns for the key returns true (max_requests >= 1).
C26_ResetTimeUnblocks ==
    [][\A key \in RateKeys :
          (/\ IsAllowed(key)
           /\ max_requests >= 1
           /\ Denied(key)
           /\ now >= GetResetTime(key)) => LastRet]_vars

\* 0 <= requests_made <= max_requests, and a blocked key has used its window up
CounterInRange ==
    \A key \in RateKeys :
        /\ 0 <= limiter_users[key].requests_made
        /\ limiter_users[key].requests_made <= max_requests
        /\ limiter_users[key].is_blocked =>
               limiter_users[key].requests_made >= max_requests

\* C30: every key has 0 <= requests_made <= max_requests, and requests_made
\* >= max_requests when it is blocked; whenever get_remaining_requests(key)
\* is positive, the next is_allowed(key) returns true.
C30_CounterInRange ==
    [][/\ CounterInRange
       /\ CounterInRange'
       /\ \A key \in RateKeys :
             (IsAllowed(key) /\ GetRemainingRequests(key) > 0) => LastRet]_vars

\* a key has been allowed up to its limit, and another one is blocked
C30_Witness ==
    /\ calls # <<>>
    /\ calls[Len(calls)].ret
    /\ max_requests >= 1
    /\ limiter_users[calls[Len(calls)].key].requests_made = max_requests
    /\ \E key \in RateKeys : limiter_users[key].is_blocked

\* ------------------------------------------- UserManager properties (2)
\* C27: the number of stored users is at most max_users.
C27_UserCountBounded == Cardinality({u \in UserKeys : um_users[u].exists}) <= max_users

\* ----------------------------------------- to_dict / from_dict properties
\* C24: User.from_dict(x.to_dict()) equals x field for field, for every User
\* x, also one whose stats.last_activity and last_login are set.
C24_UserRoundTrip == (rt_x.class = "User" /\ rt_y # NoValue) => rt_y = rt_x

\* C25: ChatMessage.from_dict(m.to_dict()) equals m field for field, for
\* every ChatMessage m.
C25_MessageRoundTrip == (rt_x.class = "ChatMessage" /\ rt_y # NoValue) => rt_y = rt_x

\* a failed message with metadata has gone through the round trip
C25_Witness ==
    /\ rt_x.class = "ChatMessage"
    /\ rt_x.status.value = "failed"
    /\ rt_x.metadata # <<>>
    /\ rt_x.timestamp.at >= 1
    /\ rt_y = rt_x

\* ------------------------------------------------ properties of threads
\* the finished calls that returned true
Granted == {i \in 1..Len(calls) : calls[i].ret}

\* every two finished calls were made less than window_minutes apart
InSingleWindow ==
    \A i, j \in 1..Len(calls) : calls[i].at - calls[j].at < window_minutes

\* C28: without a lock around is_allowed, two threads can get more than
\* max_requests calls for a key allowed within a single window, the counter
\* itself passing the limit; calls that do not overlap never do.
C28_OnlyOverlappingCallsOvershoot ==
    (~overlapped /\ InSingleWindow) => Cardinality(Granted) <= max_requests

\* more than max_requests calls have returned true within one window and the
\* registered counter has passed max_requests
C28_Witness ==
    /\ overlapped
    /\ InSingleWindow
    /\ Cardinality(Granted) > max_requests
    /\ rl_reg # 0
    /\ rl_objs[rl_reg].requests_made > max_requests

\* C29: without a lock around get_or_create_session, two threads calling it
\* for the same absent id can end up holding two different ChatSession
\* instances of which one is registered, and a message appended to the other
\* cannot be reached through get_session(id); calls that do not overlap
\* always return the registered instance.
C29_SerialCallsShare ==
    ~overlapped =>
        \A t \in Threads : At(t, "done") => threads[t].session = GetSession(GocId)

\* two threads hold different instances, one registered, and the other one
\* has received a message that get_session(id) does not show
C29_Witness ==
    \E t, u \in Threads :
        /\ At(t, "done")
        /\ At(u, "done")
        /\ threads[t].session # threads[u].session
        /\ GetSession(GocId) = threads[u].session
        /\ heap[threads[t].session].messages # <<>>
        /\ Range(heap[threads[t].session].messages)
               \cap Range(heap[GetSession(GocId)].messages) = {}

\* ------------------------------------------- ResponseCache properties (2)
\* C31: a response stored by set(c1, r, u1) is never returned by get(c2, u2)
\* when (c1, u1) differs from (c2, u2). Stated for a cache whose single entry
\* was stored by the last call, set(c1, r, u1): a get for any other pair
\* returns None.
C31_PairsIsolated ==
    [][\A c \in Contents, u \in IsolationUsers :
          (/\ cache_last.op = "set"
           /\ ~cache_last.raised
           /\ Len(cache) = 1
           /\ <<c, u>> # <<cache_last.content, cache_last.user_id>>
           /\ CacheGet(c, u)) => cache_last'.val = "None"]_vars

\* ------------------------------------------- ChatHistory properties (3)
\* C32: for max_sessions >= 1 the session create_session(id) returns is the
\* one get_session(id) gives when the call returns.
C32_CreatedIsRegistered ==
    [][\A sid \in SessionIds, uid \in UserIds :
          (/\ max_sessions >= 1
           /\ chat_last'.op = "create_session"
           /\ CreateSession(sid, uid)) =>
              /\ chat_last'.ret # 0
              /\ DictGet(sessions', sid) = chat_last'.ret]_vars

\* create_session has returned a session into a full store that holds
\* another session with the same last_activity
C32_Witness ==
    /\ chat_last.op = "create_session"
    /\ max_sessions >= 1
    /\ Len(sessions) = max_sessions
    /\ chat_last.ret \in Stored(sessions)
    /\ \E o \in Stored(sessions) \ {chat_last.ret} :
           heap[o].last_activity = heap[chat_last.ret].last_activity

\* C33: get_or_create_session(id, user_id) for a stored id changes nothing:
\* the dict is the same, every stored session keeps its user_id, messages
\* and last_activity, no instance is created, and the stored session is
\* what the call returns.
C33_StoredIdUnchanged ==
    [][\A sid \in MsgSessionIds, uid \in OwnerIds :
          (/\ DictHas(sessions, sid)
           /\ chat_last'.op = "get_or_create_session"
           /\ GetOrCreateSession(sid, uid)) =>
              /\ sessions' = sessions
              /\ chat_last'.ret = DictGet(sessions, sid)
              /\ \A o \in Stored(sessions) : heap'[o] = heap[o]
              /\ \A o \in Pool : heap'[o].live => heap[o].live]_vars

\* get_or_create_session has returned a stored session that holds messages
\* and whose user_id is not the argument of the call
C33_Witness ==
    /\ prev_goc.ret # 0
    /\ prev_goc.ret = GetSession(prev_goc.sid)
    /\ heap[prev_goc.ret].user_id # prev_goc.uid
    /\ heap[prev_goc.ret].messages # <<>>
    /\ Len(sessions) >= 2

\* ------------------------------------------- UserManager properties (3)
\* get_user_by_session(token) returns a user whose session_token is the token
ResolvesToHolder(index, users, token) ==
    LET user == GetUserBySession(index, users, token)
    IN user # "None" /\ users[user].session_token = token

\* C34: logout_user(t) ends only session t: every other token that resolved
\* to a user holding it before the call still does after the call.
C34_LogoutEndsOneSession ==
    [][\A t \in Tokens :
          LogoutUser(t) =>
              \A t2 \in Tokens \ {t} :
                  ResolvesToHolder(active_sessions, um_users, t2) =>
                      ResolvesToHolder(active_sessions', um_users', t2)]_vars

\* C35: every stored user whose session_token is a token is the user
\* get_user_by_session returns for that token.
C35_HolderIsResolved ==
    \A u \in UserKeys :
        (um_users[u].exists /\ um_users[u].session_token # "None") =>
            GetUserBySession(active_sessions, um_users, um_users[u].session_token) = u

====
